---- MODULE Spec2Model ----
(***************************************************************************)
(* Model of the MCP server manager (src/src/services/mcp-manager.js) and   *)
(* of the way src/src/server.js drives it.                                 *)
(*                                                                         *)
(* The manager runs on the Node.js event loop: every handler (an API call, *)
(* a child's 'exit' or 'error' callback, a timer callback) runs to its end *)
(* before the next one starts, so each handler is one action.              *)
(***************************************************************************)
EXTENDS Naturals, Sequences, FiniteSets

(***************************************************************************)
(* Bounds of the model.                                                    *)
(***************************************************************************)
\* how many entries of CUSTOM_MCP_SERVERS (in registry order) are modelled
NumServers == 2
\* how many shutdown() calls wait on their grace timer at the same time
\* (the SIGTERM and the SIGINT handler of server.js each call it)
MaxPendingShutdowns == 2
\* how many failures the environment produces over all servers: launches
\* that fail, children that exit with a non-zero code, kills that fail
MaxFaults == 4

(***************************************************************************)
(* Program constants.                                                      *)
(***************************************************************************)
maxRetries == 3
BaseDelay == 5000
GraceDelay == 2000

ServerIds ==
  << "bambisleep-hypnosis-mcp", "aigf-personality-mcp",
     "trigger-system-mcp", "chat-analytics-mcp" >>

\* the registry, in Object.entries order
Registry == SubSeq(ServerIds, 1, NumServers)

Servers == { Registry[i] : i \in 1..Len(Registry) }

\* an id that is no key of CUSTOM_MCP_SERVERS
UnknownId == "unknown-mcp"

\* JavaScript null (a status entry's pid when the id has no metadata)
Null == << "null" >>

\* what a child's 'exit' event reports: exit code 0, a non-zero exit code, or
\* code null with a signal name (the child was terminated by a signal)
Exits ==
  { [null |-> FALSE, code |-> 0], [null |-> FALSE, code |-> 1],
    [null |-> TRUE, code |-> 0] }

\* what the spawn expression of startServer can do: return a live child
\* ("ok"), return a child that never became a process and reports 'error' on
\* the next tick ("error"), or throw synchronously ("throw").
\* As written, the options object reads the local binding `process` inside
\* its own initialiser (line 111), which throws; "ok" and "error" are what
\* child_process.spawn itself does once its arguments are evaluated.
SpawnOutcomes == {"ok", "error", "throw"}

\* what ChildProcess.kill does on a live child: the signal is delivered, or
\* the kill fails at the OS level (EPERM) and the child emits 'error'.  The
\* children are the host's own processes, running as the host's user, so
\* Spec delivers every signal; SpecKillFail adds the failing kill.
KillDelivered == {"delivered"}

KillOutcomes == {"delivered", "error"}

VARIABLES
  enabled,            \* CUSTOM_MCP_SERVERS[id].enabled, read from the environment
  initialized,        \* initialize() has been called (server.js:246)
  servers,            \* this.servers: id -> {pid, status}
  processes,          \* this.processes: id -> child (its incarnation number)
  connectionAttempts, \* this.connectionAttempts: id -> count
  timers,             \* pending relaunch timers of handleServerFailure, per id, oldest first
  child,              \* per id, the ChildProcess objects spawn returned, oldest first
  events,             \* per id, the lifecycle events emitted, oldest first
  faults,             \* how many failures the environment has produced (bounds the model)
  graceTimers,        \* how many shutdown() calls wait on their grace timer
  shutdownDone        \* some shutdown() call has resolved

vars ==
  << enabled, initialized, servers, processes, connectionAttempts, timers,
     child, events, faults, graceTimers, shutdownDone >>

(***************************************************************************)
(* Maps (JavaScript Map): functions whose domain is the set of keys.       *)
(***************************************************************************)
EmptyMap == [k \in {} |-> k]

MapSet(m, k, v) == [x \in (DOMAIN m) \cup {k} |-> IF x = k THEN v ELSE m[x]]

MapDelete(m, k) == [x \in (DOMAIN m) \ {k} |-> m[x]]

\* the pid of a live child; a child that failed to spawn has pid undefined
Pid(id, inc) == << id, inc >>

\* new Date().toISOString() when launch inc of id is stored (line 153)
StartTime(id, inc) == << "time", id, inc >>

Undefined == << >>

(***************************************************************************)
(* The manager's state as one record, so that a handler's steps compose.   *)
(***************************************************************************)
Cur ==
  [ servers |-> servers, processes |-> processes,
    connectionAttempts |-> connectionAttempts, timers |-> timers,
    child |-> child, events |-> events, faults |-> faults,
    pending |-> graceTimers ]

Install(S) ==
  /\ servers' = S.servers
  /\ processes' = S.processes
  /\ connectionAttempts' = S.connectionAttempts
  /\ timers' = S.timers
  /\ child' = S.child
  /\ events' = S.events
  /\ faults' = S.faults
  /\ S.faults <= MaxFaults

\* this.emit(name, ...): no subscriber is registered anywhere in the
\* repository, so emitting only leaves a trace
Emit(S, id, name) ==
  [S EXCEPT !.events[id] = Append(@, name)]

\* this.connectionAttempts.get(id) || 0 (line 165)
AttemptsIn(m, id) == IF id \in DOMAIN m THEN m[id] ELSE 0

Attempts(S, id) == AttemptsIn(S.connectionAttempts, id)

(***************************************************************************)
(* handleServerFailure (lines 164-180).  A relaunch timer remembers its    *)
(* delay and how many grace timers were pending when it was set: its delay *)
(* is longer than the grace period, so it fires after those (wait counts   *)
(* the ones still to fire).                                                *)
(***************************************************************************)
\* a delay computed from the retry count before the failure, without the + 1
RetryDelayFromZero(attempts) == BaseDelay * attempts

RetryDelay(attempts) == BaseDelay * (attempts + 1)

\* how many pending grace timers fire before a timer of this delay set now
GraceTimersAhead(delay, pending) == IF delay > GraceDelay THEN pending ELSE 0

\* an off-by-one retry test
ShouldRetryOffByOne(attempts) == attempts <= maxRetries

\* a retry test that never gives up
ShouldRetryAlways(attempts) == attempts >= 0

ShouldRetry(attempts) == attempts < maxRetries

\* a handleServerFailure that schedules the relaunch without counting it
HandleServerFailureNoCount(S, id) ==
  LET attempts == Attempts(S, id) IN
  IF ShouldRetry(attempts)
    THEN [S EXCEPT
           !.timers[id] = Append(@, [delay |-> BaseDelay * (attempts + 1),
                                     wait |-> GraceTimersAhead(
                                                BaseDelay * (attempts + 1), S.pending)])]
    ELSE Emit(S, id, "serverMaxRetriesExceeded")

\* a handleServerFailure that gives up without emitting the terminal event
HandleServerFailureSilent(S, id) ==
  LET attempts == Attempts(S, id) IN
  IF ShouldRetry(attempts)
    THEN [S EXCEPT
           !.connectionAttempts = MapSet(@, id, attempts + 1),
           !.timers[id] = Append(@, [delay |-> BaseDelay * (attempts + 1),
                                     wait |-> GraceTimersAhead(
                                                BaseDelay * (attempts + 1), S.pending)])]
    ELSE S

HandleServerFailure(S, id) ==
  LET attempts == Attempts(S, id) IN
  IF ShouldRetry(attempts)
    THEN [S EXCEPT
           !.connectionAttempts = MapSet(@, id, attempts + 1),
           !.timers[id] = Append(@, [delay |-> RetryDelay(attempts),
                                     wait |-> GraceTimersAhead(
                                                RetryDelay(attempts), S.pending)])]
    ELSE Emit(S, id, "serverMaxRetriesExceeded")

(***************************************************************************)
(* startServer (lines 104-158), when spawn returns a child: the handlers   *)
(* are registered and both maps are set, whether or not the child has a    *)
(* pid.  When the spawn expression throws, nothing is changed.             *)
(***************************************************************************)
\* a child that has exited with e: its flags are never read again
ExitedChild(e) ==
  [ st |-> "exited", killed |-> FALSE, sigterm |-> FALSE, sigkill |-> FALSE,
    exit |-> << e >> ]

NewChild(outcome) ==
  [ st |-> IF outcome = "ok" THEN "alive" ELSE "spawnfailed",
    killed |-> FALSE, sigterm |-> FALSE, sigkill |-> FALSE, exit |-> << >> ]

StartServer(S, id, outcome) ==
  IF outcome = "throw"
    THEN [S EXCEPT !.faults = @ + 1]
    ELSE LET inc == Len(S.child[id]) + 1 IN
         [S EXCEPT
           !.faults = IF outcome = "ok" THEN @ ELSE @ + 1,
           !.child[id] = Append(@, NewChild(outcome)),
           !.processes = MapSet(@, id, inc),
           !.servers = MapSet(@, id,
                         [ pid |-> IF outcome = "ok" THEN Pid(id, inc) ELSE Undefined,
                           startTime |-> StartTime(id, inc),
                           status |-> "running" ])]

\* who listens to the manager's events.  EventEmitter.emit (line 64: the
\* manager extends EventEmitter) calls the listeners synchronously, inside
\* the handler that emits: a slow listener only takes time, a listener that
\* throws ends the handler at the emit.  The repository attaches none.
Subscribers == {"none", "slow", "failing"}

\* process.on('error', ...) (lines 131-135), with a listener attached
OnErrorSubscribed(S, id, subscriber) ==
  LET S1 == Emit(S, id, "serverError")
  IN IF subscriber = "failing" THEN S1 ELSE HandleServerFailure(S1, id)

\* process.on('error', ...) (lines 131-135)
OnError(S, id) == OnErrorSubscribed(S, id, "none")

\* a failure test that leaves out the check for code 0
IsFailureExitAnyCode(e) == ~e.null

\* whether the exit handler treats the exit as a failure (line 143)
IsFailureExit(e) == (e.null \/ e.code # 0) /\ ~e.null

\* an exit handler that clears the maps instead of deleting its own key
OnExitClearsMaps(S, id, inc, e) ==
  LET S1 == [S EXCEPT
               !.child[id][inc] = ExitedChild(e),
               !.processes = EmptyMap,
               !.servers = EmptyMap]
      S2 == Emit(S1, id, "serverExited")
  IN IF IsFailureExit(e)
       THEN HandleServerFailure([S2 EXCEPT !.faults = @ + 1], id)
       ELSE S2

\* an exit handler that emits serverExited after handling the failure
OnExitEmitsLast(S, id, inc, e) ==
  LET S1 == [S EXCEPT
               !.child[id][inc] = ExitedChild(e),
               !.processes = MapDelete(@, id),
               !.servers = MapDelete(@, id)]
  IN IF IsFailureExit(e)
       THEN Emit(HandleServerFailure([S1 EXCEPT !.faults = @ + 1], id),
                 id, "serverExited")
       ELSE Emit(S1, id, "serverExited")

\* an exit handler that deletes the process but keeps the metadata
OnExitKeepsMetadata(S, id, inc, e, subscriber) ==
  LET S1 == [S EXCEPT
               !.child[id][inc] = ExitedChild(e),
               !.processes = MapDelete(@, id)]
      S2 == Emit(S1, id, "serverExited")
      S3 == IF IsFailureExit(e) THEN [S2 EXCEPT !.faults = @ + 1] ELSE S2
  IN IF subscriber = "failing"
       THEN S3
       ELSE IF IsFailureExit(e) THEN HandleServerFailure(S3, id) ELSE S3

\* process.on('exit', ...) (lines 137-146) of incarnation inc of id, with a
\* listener attached
OnExitSubscribed(S, id, inc, e, subscriber) ==
  LET S1 == [S EXCEPT
               !.child[id][inc] = ExitedChild(e),
               !.processes = MapDelete(@, id),
               !.servers = MapDelete(@, id)]
      S2 == Emit(S1, id, "serverExited")
      S3 == IF IsFailureExit(e) THEN [S2 EXCEPT !.faults = @ + 1] ELSE S2
  IN IF subscriber = "failing"
       THEN S3
       ELSE IF IsFailureExit(e) THEN HandleServerFailure(S3, id) ELSE S3

\* process.on('exit', ...) (lines 137-146) of incarnation inc of id
OnExit(S, id, inc, e) == OnExitSubscribed(S, id, inc, e, "none")

(***************************************************************************)
(* ChildProcess.kill(sig) on incarnation inc of id: on a child without a   *)
(* process it returns false; otherwise the signal is delivered and         *)
(* child.killed is set, or the kill fails and 'error' is emitted at once.  *)
(***************************************************************************)
Kill(S, id, inc, sig, outcome) ==
  IF S.child[id][inc].st # "alive"
    THEN S
    ELSE IF outcome = "error"
      THEN OnError([S EXCEPT !.faults = @ + 1], id)
      ELSE IF sig = "SIGTERM"
        THEN [S EXCEPT !.child[id][inc].killed = TRUE,
                       !.child[id][inc].sigterm = TRUE]
        ELSE [S EXCEPT !.child[id][inc].killed = TRUE,
                       !.child[id][inc].sigkill = TRUE]

\* a stopServer that signals whatever process the map holds first
StopServerAnyWorker(S, id, outcome) ==
  IF DOMAIN S.processes # {}
    THEN LET t == CHOOSE x \in DOMAIN S.processes : TRUE
         IN Kill(S, t, S.processes[t], "SIGTERM", outcome)
    ELSE S

\* stopServer (lines 221-227)
StopServer(S, id, outcome) ==
  IF id \in DOMAIN S.processes
    THEN Kill(S, id, S.processes[id], "SIGTERM", outcome)
    ELSE S

(***************************************************************************)
(* initialize (lines 77-96).  The loop's awaits resume as microtasks, so   *)
(* the whole loop runs before any 'error' of a failed spawn is delivered   *)
(* (next tick) and before any timer, exit or request.                      *)
(***************************************************************************)
\* a loop without the enabled check of lines 81-84
RECURSIVE InitializeLoopNoEnabledCheck(_, _, _)
InitializeLoopNoEnabledCheck(S, i, outcome) ==
  IF i > Len(Registry)
    THEN S
    ELSE LET id == Registry[i] IN
         IF outcome[id] = "throw"
           THEN InitializeLoopNoEnabledCheck(Emit(S, id, "serverFailed"), i + 1, outcome)
           ELSE InitializeLoopNoEnabledCheck(
                  Emit(StartServer(S, id, outcome[id]), id, "serverStarted"),
                  i + 1, outcome)

\* a loop without the try/catch of lines 86-92: the first throw ends it
RECURSIVE InitializeLoopNoCatch(_, _, _)
InitializeLoopNoCatch(S, i, outcome) ==
  IF i > Len(Registry)
    THEN S
    ELSE LET id == Registry[i] IN
         IF ~enabled[id]
           THEN InitializeLoopNoCatch(S, i + 1, outcome)
           ELSE IF outcome[id] = "throw"
             THEN S
             ELSE InitializeLoopNoCatch(
                    Emit(StartServer(S, id, outcome[id]), id, "serverStarted"),
                    i + 1, outcome)

RECURSIVE InitializeLoop(_, _, _)
InitializeLoop(S, i, outcome) ==
  IF i > Len(Registry)
    THEN S
    ELSE LET id == Registry[i] IN
         IF ~enabled[id]
           THEN InitializeLoop(S, i + 1, outcome)
           ELSE IF outcome[id] = "throw"
             THEN InitializeLoop(Emit(S, id, "serverFailed"), i + 1, outcome)
             ELSE InitializeLoop(
                    Emit(StartServer(S, id, outcome[id]), id, "serverStarted"),
                    i + 1, outcome)

\* the 'error' callbacks of the children that failed to spawn, next tick
RECURSIVE SpawnErrors(_, _, _)
SpawnErrors(S, i, outcome) ==
  IF i > Len(Registry)
    THEN S
    ELSE LET id == Registry[i] IN
         IF enabled[id] /\ outcome[id] = "error"
           THEN SpawnErrors(OnError(S, id), i + 1, outcome)
           ELSE SpawnErrors(S, i + 1, outcome)

(***************************************************************************)
(* shutdown (lines 233-255): the SIGTERM loop, and after the grace timer   *)
(* the SIGKILL loop and the clearing of both maps.                         *)
(***************************************************************************)
RECURSIVE TermLoop(_, _, _)
TermLoop(S, i, outcome) ==
  IF i > Len(Registry)
    THEN S
    ELSE LET id == Registry[i] IN
         IF id \in DOMAIN S.processes
           THEN TermLoop(Kill(S, id, S.processes[id], "SIGTERM", outcome[id]),
                         i + 1, outcome)
           ELSE TermLoop(S, i + 1, outcome)

\* the test of line 246
NeedsForceKill(c) == ~c.killed

RECURSIVE ForceKillLoop(_, _, _)
ForceKillLoop(S, i, outcome) ==
  IF i > Len(Registry)
    THEN S
    ELSE LET id == Registry[i] IN
         IF id \in DOMAIN S.processes /\ NeedsForceKill(S.child[id][S.processes[id]])
           THEN ForceKillLoop(Kill(S, id, S.processes[id], "SIGKILL", outcome[id]),
                              i + 1, outcome)
           ELSE ForceKillLoop(S, i + 1, outcome)

\* a shutdown that also forgets the retry counters
ClearMapsAndCounters(S) ==
  [S EXCEPT !.processes = EmptyMap, !.servers = EmptyMap,
            !.connectionAttempts = EmptyMap]

ClearMaps(S) == [S EXCEPT !.processes = EmptyMap, !.servers = EmptyMap]

\* a grace timer has fired: the relaunch timers set while it was pending
\* wait for one timer less
GraceFired(S) ==
  [S EXCEPT !.timers =
     [id \in Servers |->
        [k \in 1..Len(S.timers[id]) |->
           [S.timers[id][k] EXCEPT
              !.wait = IF @ > 0 THEN @ - 1 ELSE 0]]]]

(***************************************************************************)
(* getServerStatus (lines 186-206): one entry per registry entry.          *)
(***************************************************************************)
StatusEntry(S, id) ==
  [ id |-> id,
    enabled |-> enabled[id],
    status |-> IF id \in DOMAIN S.servers THEN S.servers[id].status ELSE "stopped",
    pid |-> IF id \in DOMAIN S.servers THEN S.servers[id].pid ELSE Null,
    startTime |-> IF id \in DOMAIN S.servers THEN S.servers[id].startTime ELSE Null ]

\* a getServerStatus that lists only the ids that have metadata
GetServerStatusOnlyHandles(S) ==
  LET HasMetadata(id) == id \in DOMAIN S.servers
      known == SelectSeq(Registry, HasMetadata)
  IN [ i \in 1..Len(known) |-> StatusEntry(S, known[i]) ]

GetServerStatus(S) == [ i \in 1..Len(Registry) |-> StatusEntry(S, Registry[i]) ]

\* a getServerStatus that stores the entry it reports for an id without metadata
GetServerStatusCallStoring(S) ==
  [ result |-> GetServerStatus(S),
    state |-> [S EXCEPT !.servers =
                 [id \in Servers |->
                    IF id \in DOMAIN S.servers
                      THEN S.servers[id]
                      ELSE [pid |-> Null, startTime |-> Null, status |-> "stopped"]]] ]

\* a call of getServerStatus: what it returns and the manager's state after
\* it (the method only reads this.servers and the registry)
GetServerStatusCall(S) == [ result |-> GetServerStatus(S), state |-> S ]

(***************************************************************************)
(* The initial state: the module has been loaded and the manager           *)
(* constructed (lines 65-71, 259); the enabled flags come from the         *)
(* environment (lines 29, 37, 46, 54).                                     *)
(***************************************************************************)
Init ==
  /\ enabled \in [Servers -> BOOLEAN]
  /\ initialized = FALSE
  /\ servers = EmptyMap
  /\ processes = EmptyMap
  /\ connectionAttempts = EmptyMap
  /\ timers = [id \in Servers |-> << >>]
  /\ child = [id \in Servers |-> << >>]
  /\ events = [id \in Servers |-> << >>]
  /\ faults = 0
  /\ graceTimers = 0
  /\ shutdownDone = FALSE

(***************************************************************************)
(* The handlers.                                                           *)
(***************************************************************************)
\* server.js:246 calls initialize() once, while the module is evaluated
Initialize ==
  /\ ~initialized
  /\ initialized' = TRUE
  /\ \E outcome \in [Servers -> SpawnOutcomes] :
       /\ \A id \in Servers : ~enabled[id] => outcome[id] = "ok"
       /\ Install(SpawnErrors(InitializeLoop(Cur, 1, outcome), 1, outcome))
  /\ UNCHANGED << enabled, graceTimers, shutdownDone >>

\* the 'exit' event of a live child
ChildExit ==
  /\ initialized
  /\ \E id \in Servers : \E inc \in 1..Len(child[id]) : \E e \in Exits :
       /\ child[id][inc].st = "alive"
       /\ Install(OnExit(Cur, id, inc, e))
  /\ UNCHANGED << enabled, initialized, graceTimers, shutdownDone >>

\* a relaunch timer that never becomes due
RetryTimerNeverDue == FALSE /\ UNCHANGED vars

\* the callback of the oldest relaunch timer of id (lines 171-175) and, when
\* the spawn failed, the child's 'error' callback on the next tick
RetryTimer ==
  /\ initialized
  /\ \E id \in Servers : \E outcome \in SpawnOutcomes :
       /\ timers[id] # << >>
       /\ Head(timers[id]).wait = 0
       /\ LET S0 == [Cur EXCEPT !.timers[id] = Tail(@)]
              S1 == StartServer(S0, id, outcome)
          IN Install(IF outcome = "error" THEN OnError(S1, id) ELSE S1)
  /\ UNCHANGED << enabled, initialized, graceTimers, shutdownDone >>

\* GET /api/mcp/status (server.js:251-258)
GetStatus ==
  /\ initialized
  /\ Install(GetServerStatusCall(Cur).state)
  /\ UNCHANGED << enabled, initialized, graceTimers, shutdownDone >>

StopServerCall(KO) ==
  /\ initialized
  /\ \E id \in Servers \cup {UnknownId} : \E outcome \in KO :
       Install(StopServer(Cur, id, outcome))
  /\ UNCHANGED << enabled, initialized, graceTimers, shutdownDone >>

\* shutdown() up to its await (server.js:295, 309)
ShutdownBegin(KO) ==
  /\ initialized
  /\ graceTimers < MaxPendingShutdowns
  /\ graceTimers' = graceTimers + 1
  /\ \E outcome \in [Servers -> KO] :
       Install(TermLoop([Cur EXCEPT !.pending = graceTimers + 1], 1, outcome))
  /\ UNCHANGED << enabled, initialized, shutdownDone >>

\* a shutdown() that resumes only once no child is alive
ShutdownEndAwaitsExit(KO) ==
  /\ graceTimers > 0
  /\ \A id \in Servers : \A inc \in 1..Len(child[id]) : child[id][inc].st # "alive"
  /\ graceTimers' = graceTimers - 1
  /\ shutdownDone' = TRUE
  /\ \E outcome \in [Servers -> KO] :
       Install(ClearMaps(ForceKillLoop(
                 GraceFired([Cur EXCEPT !.pending = graceTimers - 1]), 1, outcome)))
  /\ UNCHANGED << enabled, initialized >>

\* the grace timer of the oldest waiting shutdown() fires: the rest of shutdown()
ShutdownEnd(KO) ==
  /\ graceTimers > 0
  /\ graceTimers' = graceTimers - 1
  /\ shutdownDone' = TRUE
  /\ \E outcome \in [Servers -> KO] :
       Install(ClearMaps(ForceKillLoop(
                 GraceFired([Cur EXCEPT !.pending = graceTimers - 1]), 1, outcome)))
  /\ UNCHANGED << enabled, initialized >>

Next ==
  \/ Initialize
  \/ ChildExit
  \/ RetryTimer
  \/ GetStatus
  \/ StopServerCall(KillDelivered)
  \/ ShutdownBegin(KillDelivered)
  \/ ShutdownEnd(KillDelivered)

Spec == Init /\ [][Next]_vars

\* the same handlers, with kills that may fail
NextKillFail ==
  \/ Initialize
  \/ ChildExit
  \/ RetryTimer
  \/ GetStatus
  \/ StopServerCall(KillOutcomes)
  \/ ShutdownBegin(KillOutcomes)
  \/ ShutdownEnd(KillOutcomes)

SpecKillFail == Init /\ [][NextKillFail]_vars

\* the manager when neither shutdown() nor stopServer is ever called; the
\* event loop runs the callback of every relaunch timer that is due
NextRecovery ==
  \/ Initialize
  \/ ChildExit
  \/ RetryTimer
  \/ GetStatus

SpecRecovery ==
  /\ Init
  /\ [][NextRecovery]_vars
  /\ \A id \in Servers : WF_vars(RetryTimer /\ timers'[id] # timers[id])

\* the event loop runs a timer's callback once the timer is due: the grace
\* timer of line 242 is not cancelled anywhere, so a waiting shutdown() resumes
SpecLive == Spec /\ WF_vars(ShutdownEnd(KillDelivered))

(***************************************************************************)
(* What the properties below read off the state.                           *)
(***************************************************************************)
CountEvents(id, name) ==
  Cardinality({ k \in 1..Len(events[id]) : events[id][k] = name })

Emitted(id, name) == CountEvents(id, name) > 0

\* how many times startServer has been called for id: once by initialize(),
\* and once by every relaunch timer that has fired
Launches(id) ==
  (IF initialized /\ enabled[id] THEN 1 ELSE 0)
    + AttemptsIn(connectionAttempts, id) - Len(timers[id])

Alive(id, inc) == child[id][inc].st = "alive"

HasLiveChild(id) == \E inc \in 1..Len(child[id]) : Alive(id, inc)

Crashed(c) == c.st = "exited" /\ IsFailureExit(c.exit[1])

\* every launch of id so far created a process, and every one of them has
\* exited with a non-zero code
EveryLaunchCrashed(id) ==
  /\ initialized /\ enabled[id]
  /\ Launches(id) = Len(child[id])
  /\ \A inc \in 1..Len(child[id]) : Crashed(child[id][inc])

\* the terminal condition the specification calls Failed: the retries of id
\* are used up and serverMaxRetriesExceeded has been emitted
Failed(id) == Emitted(id, "serverMaxRetriesExceeded")

(***************************************************************************)
(* C1  Retry bound (P2).  A worker is never spawned more than              *)
(* 1 + maxRetries times.  For a worker whose every launch ended in a       *)
(* non-zero exit and that has no relaunch pending, exactly maxRetries      *)
(* relaunches were made, serverMaxRetriesExceeded was emitted once and the *)
(* worker has no handle; and once a worker is Failed no step spawns a      *)
(* process for it again.                                                   *)
(***************************************************************************)
RetryBoundInv ==
  \A id \in Servers :
    /\ Len(child[id]) <= 1 + maxRetries
    /\ (EveryLaunchCrashed(id) /\ timers[id] = << >>) =>
         /\ Len(child[id]) = 1 + maxRetries
         /\ AttemptsIn(connectionAttempts, id) = maxRetries
         /\ CountEvents(id, "serverMaxRetriesExceeded") = 1
         /\ id \notin DOMAIN servers
         /\ id \notin DOMAIN processes
    /\ Failed(id) =>
         /\ timers[id] = << >>
         /\ AttemptsIn(connectionAttempts, id) = maxRetries

NoSpawnOnceFailed ==
  \A id \in Servers : Failed(id) => Len(child'[id]) = Len(child[id])

RetryBound == [](RetryBoundInv) /\ [][NoSpawnOnceFailed]_vars

RetryBoundWitness ==
  \E id \in Servers : EveryLaunchCrashed(id) /\ Failed(id)

(***************************************************************************)
(* C2  Scenario C.  Once shutdown() has been called (it waits on its grace *)
(* timer, or it has resolved) no process is spawned: a relaunch that was   *)
(* pending when shutdown() began has been cancelled.                       *)
(***************************************************************************)
ShutdownRequested == graceTimers > 0 \/ shutdownDone

ShutdownCancelsRetry ==
  [][ShutdownRequested =>
       \A id \in Servers : Len(child'[id]) = Len(child[id])]_vars

(***************************************************************************)
(* C3  Scenario D.  When the grace timer fires, every process that was     *)
(* sent SIGTERM and is still alive is sent SIGKILL.                        *)
(***************************************************************************)
GraceElapses == graceTimers' < graceTimers

ForceKillEscalation ==
  [][GraceElapses =>
       \A id \in Servers : \A inc \in 1..Len(child[id]) :
         (Alive(id, inc) /\ child[id][inc].sigterm) =>
           child'[id][inc].sigkill]_vars

(***************************************************************************)
(* C4  A live child that nobody asked to stop and that is terminated by a  *)
(* signal (exit code null) is handled like a crash: while retries are      *)
(* left, the retry counter is incremented and a relaunch is scheduled.     *)
(***************************************************************************)
SignalExitIsRetried ==
  [][\A id \in Servers : \A inc \in 1..Len(child[id]) :
       ( /\ Alive(id, inc)
         /\ ~child[id][inc].killed
         /\ ~ShutdownRequested
         /\ child'[id][inc].st = "exited"
         /\ child'[id][inc].exit[1].null
         /\ AttemptsIn(connectionAttempts, id) < maxRetries ) =>
       ( /\ AttemptsIn(connectionAttempts', id)
              = AttemptsIn(connectionAttempts, id) + 1
         /\ Len(timers'[id]) = Len(timers[id]) + 1 )]_vars

(***************************************************************************)
(* C5  When shutdown() resolves, the process map is empty and every        *)
(* process that is still alive has been sent SIGKILL; after that no        *)
(* process is spawned.                                                     *)
(***************************************************************************)
NoOrphanAfterShutdown ==
  [][ /\ GraceElapses =>
           /\ processes' = EmptyMap
           /\ \A id \in Servers : \A inc \in 1..Len(child'[id]) :
                child'[id][inc].st = "alive" => child'[id][inc].sigkill
      /\ shutdownDone =>
           \A id \in Servers : Len(child'[id]) = Len(child[id]) ]_vars

(***************************************************************************)
(* C6  Clean exit is not retried (P5).  The exit of a child with code 0    *)
(* leaves the retry counter and the relaunch timers of its worker as they  *)
(* were; a child that exited with code 0 is the last process of its        *)
(* worker, the worker has no relaunch pending, is not Failed, and is       *)
(* reported stopped.                                                       *)
(***************************************************************************)
CleanExit(c) == c.st = "exited" /\ ~c.exit[1].null /\ c.exit[1].code = 0

CleanExitInv ==
  \A id \in Servers : \A inc \in 1..Len(child[id]) :
    CleanExit(child[id][inc]) =>
      /\ inc = Len(child[id])
      /\ timers[id] = << >>
      /\ AttemptsIn(connectionAttempts, id) = inc - 1
      /\ ~Failed(id)
      /\ id \notin DOMAIN processes
      /\ StatusEntry(Cur, id).status = "stopped"

CleanExitStep ==
  \A id \in Servers : \A inc \in 1..Len(child[id]) :
    (Alive(id, inc) /\ CleanExit(child'[id][inc])) =>
      /\ AttemptsIn(connectionAttempts', id) = AttemptsIn(connectionAttempts, id)
      /\ timers'[id] = timers[id]

CleanExitNotRetried == [](CleanExitInv) /\ [][CleanExitStep]_vars

CleanExitWitness ==
  \E id \in Servers :
    /\ Len(child[id]) > 1
    /\ CleanExit(child[id][Len(child[id])])

(***************************************************************************)
(* C7  Isolation (P4).  A step other than initialize() and shutdown()      *)
(* changes the handle, the process, the retry counter, the timers and the  *)
(* events of at most one worker; and until a shutdown() has resolved, a    *)
(* worker with a live process is reported running with that process's pid. *)
(***************************************************************************)
WorkerPart(sv, pr, ca, tm, ch, ev, id) ==
  << IF id \in DOMAIN sv THEN << sv[id] >> ELSE << >>,
     IF id \in DOMAIN pr THEN << pr[id] >> ELSE << >>,
     AttemptsIn(ca, id), tm[id], ch[id], ev[id] >>

WorkerUnchanged(id) ==
  WorkerPart(servers', processes', connectionAttempts', timers', child', events', id)
    = WorkerPart(servers, processes, connectionAttempts, timers, child, events, id)

IsolationStep ==
  (graceTimers' = graceTimers /\ initialized' = initialized) =>
    \A a \in Servers : \A b \in Servers \ {a} :
      ~WorkerUnchanged(a) => WorkerUnchanged(b)

IsolationInv ==
  \A b \in Servers : \A inc \in 1..Len(child[b]) :
    (Alive(b, inc) /\ ~shutdownDone) =>
      /\ b \in DOMAIN processes /\ processes[b] = inc
      /\ StatusEntry(Cur, b).status = "running"
      /\ StatusEntry(Cur, b).pid = Pid(b, inc)

Isolation == [](IsolationInv) /\ [][IsolationStep]_vars

IsolationWitness ==
  \E a \in Servers : \E b \in Servers \ {a} :
    /\ Failed(a)
    /\ Len(child[b]) = 1 /\ Alive(b, 1)
    /\ StatusEntry(Cur, b).status = "running"

(***************************************************************************)
(* C8  Disabled definitions never launch (P6).  For a definition with      *)
(* enabled = false no process was ever spawned, no launch was made, no     *)
(* relaunch is pending, and getServerStatus() reports it stopped, with     *)
(* pid null.                                                               *)
(***************************************************************************)
DisabledNeverLaunch ==
  \A i \in 1..Len(Registry) :
    ~enabled[Registry[i]] =>
      /\ child[Registry[i]] = << >>
      /\ Launches(Registry[i]) = 0
      /\ timers[Registry[i]] = << >>
      /\ GetServerStatus(Cur)[i].id = Registry[i]
      /\ GetServerStatus(Cur)[i].status = "stopped"
      /\ GetServerStatus(Cur)[i].pid = Null

DisabledWitness ==
  /\ initialized
  /\ \E a \in Servers : \E b \in Servers :
       ~enabled[a] /\ enabled[b] /\ Len(child[b]) > 1

(***************************************************************************)
(* C9  Idempotent shutdown (P1).  After a shutdown() has resolved, a       *)
(* further shutdown() call is a no-op: no step starts a grace-period wait  *)
(* again.                                                                  *)
(***************************************************************************)
SecondShutdownIsNoOp ==
  [][(shutdownDone /\ graceTimers = 0) => graceTimers' = 0]_vars

(***************************************************************************)
(* C10  initialize() attempts every enabled definition exactly once,       *)
(* whatever happens to the others: after it has returned, every enabled    *)
(* definition has exactly one serverStarted or serverFailed event, emitted *)
(* before any other event of that worker, a launch that threw is reported  *)
(* by serverFailed, and a launch whose child failed to spawn by            *)
(* serverError.                                                            *)
(***************************************************************************)
InitializeAttemptsAll ==
  initialized =>
    \A id \in Servers :
      IF enabled[id]
        THEN /\ CountEvents(id, "serverStarted") + CountEvents(id, "serverFailed") = 1
             /\ events[id][1] \in {"serverStarted", "serverFailed"}
             /\ Launches(id) >= 1
             /\ Emitted(id, "serverFailed") => child[id] = << >>
             /\ (child[id] # << >> /\ child[id][1].st = "spawnfailed") =>
                  Emitted(id, "serverError")
        ELSE events[id] = << >>

InitializeWitness ==
  /\ initialized
  /\ Len(Registry) >= 2
  /\ enabled[Registry[1]] /\ Emitted(Registry[1], "serverFailed")
  /\ enabled[Registry[2]] /\ Emitted(Registry[2], "serverStarted")
  /\ HasLiveChild(Registry[2])

(***************************************************************************)
(* C11  Scenario A.  After initialize() has returned, spawn was called for *)
(* every enabled definition; and while every enabled definition runs its   *)
(* first process and no shutdown() has resolved, getServerStatus() reports *)
(* every enabled definition running, with a pid, the pids pairwise         *)
(* distinct.                                                               *)
(***************************************************************************)
FirstLaunchRuns(id) == Len(child[id]) = 1 /\ Alive(id, 1)

ScenarioA ==
  initialized =>
    /\ \A id \in Servers : enabled[id] => child[id] # << >>
    /\ (~shutdownDone /\ \A id \in Servers : enabled[id] => FirstLaunchRuns(id)) =>
         \A i \in 1..Len(Registry) : \A j \in 1..Len(Registry) :
           (enabled[Registry[i]] /\ enabled[Registry[j]]) =>
             /\ GetServerStatus(Cur)[i].status = "running"
             /\ GetServerStatus(Cur)[i].pid \notin {Null, Undefined}
             /\ i # j => GetServerStatus(Cur)[i].pid # GetServerStatus(Cur)[j].pid

(***************************************************************************)
(* C12  Scenario B.  A worker whose first process exited with a non-zero   *)
(* code and whose second process is alive has a retry counter of 1, has    *)
(* been launched exactly twice (one relaunch), has no relaunch pending     *)
(* and, until a shutdown() resolves, is reported running with the second   *)
(* process's pid.                                                          *)
(***************************************************************************)
CrashedOnceThenRuns(id) ==
  /\ Len(child[id]) = 2
  /\ Crashed(child[id][1])
  /\ Alive(id, 2)

ScenarioB ==
  \A id \in Servers :
    CrashedOnceThenRuns(id) =>
      /\ AttemptsIn(connectionAttempts, id) = 1
      /\ Launches(id) = 2
      /\ timers[id] = << >>
      /\ ~Failed(id)
      /\ ~shutdownDone =>
           /\ StatusEntry(Cur, id).status = "running"
           /\ StatusEntry(Cur, id).pid = Pid(id, 2)

ScenarioBWitness ==
  \E id \in Servers :
    /\ CrashedOnceThenRuns(id)
    /\ ~ShutdownRequested
    /\ StatusEntry(Cur, id).status = "running"

(***************************************************************************)
(* C13  Backoff schedule (P3).  The k-th relaunch of a worker is scheduled *)
(* with a delay of BaseDelay * k (5000, 10000, 15000 ms): every pending    *)
(* relaunch timer carries the delay of its retry number, a step that       *)
(* schedules a relaunch gives it BaseDelay times the new retry count, and  *)
(* the delay never decreases from one retry to the next.                   *)
(***************************************************************************)
\* the retry number of the j-th pending relaunch timer of id
RetryNumber(id, j) == AttemptsIn(connectionAttempts, id) - Len(timers[id]) + j

BackoffInv ==
  /\ \A id \in Servers : \A j \in 1..Len(timers[id]) :
       /\ RetryNumber(id, j) \in 1..maxRetries
       /\ timers[id][j].delay = BaseDelay * RetryNumber(id, j)
  /\ \A k \in 1..(maxRetries - 1) :
       /\ RetryDelay(k - 1) = BaseDelay * k
       /\ RetryDelay(k) >= RetryDelay(k - 1)
  /\ RetryDelay(maxRetries - 1) = BaseDelay * maxRetries

BackoffStep ==
  \A id \in Servers :
    AttemptsIn(connectionAttempts', id) > AttemptsIn(connectionAttempts, id) =>
      /\ AttemptsIn(connectionAttempts', id) = AttemptsIn(connectionAttempts, id) + 1
      /\ timers'[id] # << >>
      /\ timers'[id][Len(timers'[id])].delay
           = BaseDelay * AttemptsIn(connectionAttempts', id)

StopCancelsRetry ==
  \A id \in Servers :
    timers[id] # << >> => StopServer(Cur, id, "delivered").timers[id] = << >>

(***************************************************************************)
(* C15  stopServer(id), in every reachable state and for every id, known   *)
(* or not: when the process map holds a live child for id, a delivered     *)
(* SIGTERM marks that child and changes nothing else, and a failed kill    *)
(* changes nothing of any other worker; when the map holds no live child   *)
(* for id, the call changes nothing at all.                                *)
(***************************************************************************)
HasProcess(id) ==
  id \in DOMAIN processes /\ child[id][processes[id]].st = "alive"

Signalled(S, id) ==
  [S EXCEPT !.child[id][processes[id]].killed = TRUE,
            !.child[id][processes[id]].sigterm = TRUE]

WorkerPartOf(S, id) ==
  WorkerPart(S.servers, S.processes, S.connectionAttempts, S.timers,
             S.child, S.events, id)

StopServerFrame ==
  \A id \in Servers \cup {UnknownId} : \A outcome \in KillOutcomes :
    IF HasProcess(id)
      THEN /\ outcome = "delivered" => StopServer(Cur, id, outcome) = Signalled(Cur, id)
           /\ \A b \in Servers \ {id} :
                WorkerPartOf(StopServer(Cur, id, outcome), b) = WorkerPartOf(Cur, b)
      ELSE StopServer(Cur, id, outcome) = Cur

StopServerWitness ==
  /\ ~ShutdownRequested
  /\ \E a \in Servers : \E b \in Servers \ {a} :
       /\ HasProcess(a) /\ child[a][processes[a]].sigterm
       /\ HasProcess(b) /\ ~child[b][processes[b]].sigterm
       /\ StopServer(Cur, b, "delivered") # Cur

(***************************************************************************)
(* C16  getServerStatus() returns one entry per registry entry, enabled or *)
(* not, in registry order; an entry is 'stopped' with pid null and start   *)
(* time null exactly when this.servers has no metadata for the id, and     *)
(* otherwise carries the metadata's status, pid and start time.            *)
(***************************************************************************)
StatusSnapshot ==
  /\ Len(GetServerStatus(Cur)) = Len(Registry)
  /\ \A i \in 1..Len(Registry) :
       LET id == Registry[i]
           entry == GetServerStatus(Cur)[i]
       IN /\ entry.id = id
          /\ entry.enabled = enabled[id]
          /\ entry.status = "stopped" <=> id \notin DOMAIN servers
          /\ entry.pid = Null <=> id \notin DOMAIN servers
          /\ entry.startTime = Null <=> id \notin DOMAIN servers
          /\ id \in DOMAIN servers =>
               /\ entry.status = servers[id].status
               /\ entry.pid = servers[id].pid
               /\ entry.startTime = servers[id].startTime

StatusSnapshotWitness ==
  /\ initialized
  /\ \E i \in 1..Len(Registry) : \E j \in 1..Len(Registry) :
       /\ enabled[Registry[i]]
       /\ GetServerStatus(Cur)[i].status = "stopped"
       /\ GetServerStatus(Cur)[j].status = "running"
       /\ GetServerStatus(Cur)[j].pid = Pid(Registry[j], 2)

(***************************************************************************)
(* C17  getServerStatus() has no side effects: in every reachable state    *)
(* the manager's state after a call (both maps, the retry counters, the    *)
(* relaunch timers, the children and the signals sent to them, the events  *)
(* emitted) is the state before it.                                        *)
(***************************************************************************)
StatusHasNoSideEffects == GetServerStatusCall(Cur).state = Cur

StatusNoSideEffectsWitness ==
  /\ initialized
  /\ \E a \in Servers : \E b \in Servers :
       /\ a \in DOMAIN servers /\ HasLiveChild(a)
       /\ b \notin DOMAIN servers /\ timers[b] # << >>
       /\ GetServerStatusCall(Cur).result[1].id = Registry[1]

(***************************************************************************)
(* C18  shutdown() always terminates: a shutdown() that waits on its grace *)
(* timer resumes when the timer fires, whatever the children do (either    *)
(* from some point on no shutdown() is waiting, or waiting shutdown()      *)
(* calls resolve again and again).                                         *)
(***************************************************************************)
ShutdownTerminates ==
  <>[](graceTimers = 0) \/ []<><<GraceElapses>>_vars

ShutdownTerminatesWitness ==
  /\ shutdownDone /\ graceTimers = 0
  /\ \E id \in Servers : \E inc \in 1..Len(child[id]) :
       Alive(id, inc) /\ child[id][inc].sigterm
  /\ \E id \in Servers : timers[id] # << >>

(***************************************************************************)
(* C19  Retries exhausted.  When a worker fails (its child reports 'error' *)
(* or exits with a non-zero code) with its retry counter at maxRetries,    *)
(* serverMaxRetriesExceeded is emitted for it, the counter stays as it is  *)
(* and no relaunch is scheduled; the event is emitted only by such a       *)
(* failure, at most once per worker, and never for a worker whose counter  *)
(* is below maxRetries.                                                    *)
(***************************************************************************)
CountIn(ev, id, name) ==
  Cardinality({ k \in 1..Len(ev[id]) : ev[id][k] = name })

\* the step delivers a failure of id: an 'error' callback ran, or a live
\* child of id exited with a non-zero code
FailureStep(id) ==
  \/ CountIn(events', id, "serverError") > CountIn(events, id, "serverError")
  \/ \E inc \in 1..Len(child[id]) : Alive(id, inc) /\ Crashed(child'[id][inc])

ExhaustedInv ==
  \A id \in Servers :
    /\ CountEvents(id, "serverMaxRetriesExceeded") <= 1
    /\ Emitted(id, "serverMaxRetriesExceeded") =>
         /\ AttemptsIn(connectionAttempts, id) = maxRetries
         /\ timers[id] = << >>

ExhaustedStep ==
  \A id \in Servers :
    /\ (FailureStep(id) /\ AttemptsIn(connectionAttempts, id) = maxRetries) =>
         /\ CountIn(events', id, "serverMaxRetriesExceeded")
              = CountIn(events, id, "serverMaxRetriesExceeded") + 1
         /\ AttemptsIn(connectionAttempts', id) = maxRetries
         /\ timers'[id] = << >>
    /\ CountIn(events', id, "serverMaxRetriesExceeded")
         > CountIn(events, id, "serverMaxRetriesExceeded") =>
         /\ FailureStep(id)
         /\ AttemptsIn(connectionAttempts, id) = maxRetries

SpawnFailureIsRetried ==
  \A id \in Servers :
    Emitted(id, "serverFailed") =>
      AttemptsIn(connectionAttempts, id) > 0 \/ Failed(id)

(***************************************************************************)
(* C21  An exit that follows a termination request is not treated as a     *)
(* crash: when a live child that has been sent SIGTERM or SIGKILL (by      *)
(* stopServer or by shutdown()) exits, with whatever code or signal, the   *)
(* retry counter of its worker is not incremented and no relaunch is       *)
(* scheduled.                                                              *)
(***************************************************************************)
RequestedExitIsNoCrash ==
  [][\A id \in Servers : \A inc \in 1..Len(child[id]) :
       ( /\ Alive(id, inc)
         /\ child[id][inc].killed
         /\ child'[id][inc].st = "exited" ) =>
       ( /\ AttemptsIn(connectionAttempts', id) = AttemptsIn(connectionAttempts, id)
         /\ timers'[id] = timers[id] )]_vars

(***************************************************************************)
(* C22  A worker is reported with a process id exactly when it is reported *)
(* running: an entry with status 'running' has a defined pid, and an entry *)
(* with status 'stopped' has none.                                         *)
(***************************************************************************)
PidIffRunning ==
  \A i \in 1..Len(Registry) :
    GetServerStatus(Cur)[i].status = "running"
      <=> GetServerStatus(Cur)[i].pid \notin {Null, Undefined}

(***************************************************************************)
(* C23  From initialize() until a shutdown() has resolved, every enabled   *)
(* definition has exactly one handle: it is a key of this.servers.         *)
(***************************************************************************)
ExactlyOneHandle ==
  (initialized /\ ~shutdownDone) =>
    \A id \in Servers : enabled[id] => id \in DOMAIN servers

(***************************************************************************)
(* C24  A handle is removed from this.servers only by a shutdown() that    *)
(* resolves or by the exit of the worker's process with code 0: a step in  *)
(* which a process exits with a non-zero code or by a signal removes no    *)
(* handle.                                                                 *)
(***************************************************************************)
HandleRemovedOnlyWhenStopped ==
  [][\A id \in Servers :
       (id \in DOMAIN servers /\ id \notin DOMAIN servers') =>
         \/ GraceElapses
         \/ \E inc \in 1..Len(child[id]) :
              Alive(id, inc) /\ CleanExit(child'[id][inc])]_vars

(***************************************************************************)
(* C25  serverStarted is emitted once for every launch that produced a     *)
(* live process, the first launch and every relaunch, and for no other     *)
(* launch: a worker has as many serverStarted events as children that      *)
(* became a process.                                                       *)
(***************************************************************************)
BecameProcess(id) ==
  Cardinality({ inc \in 1..Len(child[id]) : child[id][inc].st # "spawnfailed" })

StartedOnEveryLaunch ==
  \A id \in Servers : CountEvents(id, "serverStarted") = BecameProcess(id)

(***************************************************************************)
(* C26  Events of one worker are emitted in the order of its transitions.  *)
(* The log of a worker only grows; serverStarted (or serverFailed) is its  *)
(* first entry, so it precedes every exit; serverMaxRetriesExceeded comes  *)
(* directly after the serverExited or serverError of the failure that      *)
(* caused it; and an exit or an error is always that of the worker's       *)
(* latest incarnation, so no event of an earlier incarnation follows an    *)
(* event of a later one.                                                   *)
(***************************************************************************)
EventOrderInv ==
  \A id \in Servers : \A k \in 1..Len(events[id]) :
    /\ events[id][k] \in {"serverStarted", "serverFailed"} => k = 1
    /\ events[id][k] = "serverMaxRetriesExceeded" =>
         /\ k > 1
         /\ events[id][k - 1] \in {"serverExited", "serverError"}

EventOrderStep ==
  \A id \in Servers :
    /\ Len(events'[id]) >= Len(events[id])
    /\ SubSeq(events'[id], 1, Len(events[id])) = events[id]
    /\ \A inc \in 1..Len(child[id]) :
         (Alive(id, inc) /\ child'[id][inc].st = "exited") =>
           /\ inc = Len(child'[id])
           /\ Len(events'[id]) > Len(events[id])
           /\ events'[id][Len(events[id]) + 1] = "serverExited"
    /\ CountIn(events', id, "serverError") > CountIn(events, id, "serverError") =>
         child'[id][Len(child'[id])].st = "spawnfailed"

CrashExit == [null |-> FALSE, code |-> 1]

Settled(S, id) ==
  /\ \A inc \in 1..Len(S.child[id]) : S.child[id][inc].st # "alive"
  /\ S.timers[id] = << >>
  /\ id \notin DOMAIN S.servers

RaceIsConsistent ==
  \A id \in Servers :
    HasProcess(id) =>
      /\ Settled(StopServer(OnExit(Cur, id, processes[id], CrashExit),
                            id, "delivered"), id)
      /\ Settled(OnExit(StopServer(Cur, id, "delivered"),
                        id, processes[id], CrashExit), id)

(***************************************************************************)
(* C28  The retry counter is cumulative: no step decreases the counter of  *)
(* any worker or removes it (not a relaunch, a clean exit, stopServer or   *)
(* shutdown()), and it grows by at most one per step.                      *)
(***************************************************************************)
CounterStep ==
  \A id \in Servers :
    /\ AttemptsIn(connectionAttempts', id) >= AttemptsIn(connectionAttempts, id)
    /\ AttemptsIn(connectionAttempts', id) <= AttemptsIn(connectionAttempts, id) + 1
    /\ id \in DOMAIN connectionAttempts => id \in DOMAIN connectionAttempts'

CounterIsCumulative == [][CounterStep]_vars

\* a worker that was relaunched, then shut down, relaunched again and that
\* exited with code 0: its counter still holds every failure
CounterWitness ==
  \E id \in Servers :
    /\ shutdownDone
    /\ AttemptsIn(connectionAttempts, id) >= 2
    /\ CleanExit(child[id][Len(child[id])])
    /\ id \notin DOMAIN servers

(***************************************************************************)
(* C29  The grace timer of a shutdown is not duplicated by what happens    *)
(* during the grace window, a second shutdown() call included: at any time *)
(* at most one grace timer is pending.                                     *)
(***************************************************************************)
SingleGraceTimer == graceTimers <= 1

(***************************************************************************)
(* C30  Subscriber non-interference: whatever listener is attached, the    *)
(* 'exit' and the 'error' handler of a child leave the same handles,       *)
(* process map, retry counters and relaunch timers as with no listener.    *)
(***************************************************************************)
Supervision(S) ==
  << S.servers, S.processes, S.connectionAttempts, S.timers >>

SubscriberNonInterference ==
  \A subscriber \in Subscribers : \A id \in Servers :
    \A inc \in 1..Len(child[id]) :
      /\ Alive(id, inc) =>
           \A e \in Exits :
             Supervision(OnExitSubscribed(Cur, id, inc, e, subscriber))
               = Supervision(OnExit(Cur, id, inc, e))
      /\ child[id][inc].st = "spawnfailed" =>
           Supervision(OnErrorSubscribed(Cur, id, subscriber))
             = Supervision(OnError(Cur, id))

(***************************************************************************)
(* C31  A kill that fails during shutdown(): the SIGTERM loop still        *)
(* signals every other worker that has a process, and the failure does not *)
(* trigger a relaunch (no retry counter changes, no relaunch timer is      *)
(* set), whichever kills fail.                                             *)
(***************************************************************************)
KillFailureNoRelaunch ==
  \A outcome \in [Servers -> KillOutcomes] :
    /\ \A id \in Servers :
         (HasProcess(id) /\ outcome[id] = "delivered") =>
           TermLoop(Cur, 1, outcome).child[id][processes[id]].sigterm
    /\ TermLoop(Cur, 1, outcome).connectionAttempts = connectionAttempts
    /\ TermLoop(Cur, 1, outcome).timers = timers

(***************************************************************************)
(* C32  The two maps agree between handlers: an id is a key of             *)
(* this.servers exactly when it is a key of this.processes.                *)
(***************************************************************************)
MapsAgree == DOMAIN servers = DOMAIN processes

MapsAgreeWitness ==
  /\ ~ShutdownRequested
  /\ \E a \in Servers : \E b \in Servers :
       /\ a \in DOMAIN servers /\ a \in DOMAIN processes /\ Len(child[a]) > 1
       /\ b \notin DOMAIN servers /\ b \notin DOMAIN processes /\ child[b] # << >>

(***************************************************************************)
(* C33  The retry counter of every worker stays within 0..maxRetries and   *)
(* at most 1 + maxRetries processes are ever spawned for it: every spawn   *)
(* after the first and every pending relaunch was paid for by one          *)
(* increment of the counter.  The same holds after an 'error' callback     *)
(* followed by an 'exit' callback of one live process.                     *)
(***************************************************************************)
WithinRetryBudget(S, id) ==
  /\ Attempts(S, id) \in 0..maxRetries
  /\ Len(S.child[id]) <= 1 + maxRetries
  /\ Len(S.child[id]) + Len(S.timers[id]) <= 1 + Attempts(S, id)

CounterBound ==
  \A id \in Servers :
    /\ WithinRetryBudget(Cur, id)
    /\ HasProcess(id) =>
         /\ WithinRetryBudget(OnError(Cur, id), id)
         /\ \A e \in Exits :
              WithinRetryBudget(OnExit(OnError(Cur, id), id, processes[id], e), id)

CounterBoundWitness ==
  \E id \in Servers :
    /\ AttemptsIn(connectionAttempts, id) = maxRetries
    /\ Len(child[id]) = 1 + maxRetries
    /\ HasProcess(id)
    /\ \E inc \in 1..Len(child[id]) : child[id][inc].st = "spawnfailed"
    /\ \E inc \in 1..Len(child[id]) : Crashed(child[id][inc])

(***************************************************************************)
(* C34  At most one relaunch timer is pending per worker, also after a     *)
(* live process has reported both an 'error' callback and an 'exit'        *)
(* callback: the two lead to one handleServerFailure call.                 *)
(***************************************************************************)
SingleRelaunchTimer ==
  \A id \in Servers :
    /\ Len(timers[id]) <= 1
    /\ HasProcess(id) =>
         \A e \in Exits :
           Len(OnExit(OnError(Cur, id), id, processes[id], e).timers[id]) <= 1

(***************************************************************************)
(* C35  No untracked process: every live process of a worker is the one    *)
(* stored under its id in this.processes; and when a process that          *)
(* reported 'error' has been replaced by a relaunch and then exits, its    *)
(* exit handler leaves the entry of the new process in place.              *)
(***************************************************************************)
\* the relaunch timer set by an 'error' callback of the live process of id
\* has fired and its spawn returned a live child
RelaunchedAfterError(id) ==
  StartServer([OnError(Cur, id) EXCEPT !.timers[id] = << >>], id, "ok")

NoUntrackedProcess ==
  \A id \in Servers :
    /\ \A inc \in 1..Len(child[id]) :
         Alive(id, inc) => (id \in DOMAIN processes /\ processes[id] = inc)
    /\ (HasProcess(id) /\ timers[id] = << >>
          /\ AttemptsIn(connectionAttempts, id) < maxRetries) =>
         id \in DOMAIN OnExit(RelaunchedAfterError(id), id, processes[id],
                             CrashExit).processes

(***************************************************************************)
(* C36  A worker that getServerStatus() reports 'running' has a live       *)
(* process.                                                                *)
(***************************************************************************)
RunningHasLiveProcess ==
  \A id \in Servers :
    StatusEntry(Cur, id).status = "running" => HasProcess(id)

(***************************************************************************)
(* C37  Liveness of recovery.  With neither shutdown() nor stopServer      *)
(* called, the exit of a process with a non-zero code either schedules a   *)
(* relaunch or emits serverMaxRetriesExceeded, and every scheduled         *)
(* relaunch is eventually made (startServer is called again for the        *)
(* worker).                                                                *)
(***************************************************************************)
CrashIsHandled ==
  \A id \in Servers : \A inc \in 1..Len(child[id]) :
    (Alive(id, inc) /\ Crashed(child'[id][inc])) =>
      \/ /\ Len(timers'[id]) = Len(timers[id]) + 1
         /\ AttemptsIn(connectionAttempts', id)
              = AttemptsIn(connectionAttempts, id) + 1
      \/ CountIn(events', id, "serverMaxRetriesExceeded")
           = CountIn(events, id, "serverMaxRetriesExceeded") + 1

Recovery ==
  /\ [][CrashIsHandled]_vars
  /\ \A id \in Servers : \A n \in 0..maxRetries :
       (timers[id] # << >> /\ Launches(id) = n) ~> (Launches(id) > n)

RecoveryWitness ==
  \E id \in Servers :
    /\ Len(child[id]) = 3
    /\ Crashed(child[id][1]) /\ Crashed(child[id][2])
    /\ Alive(id, 3)
    /\ Launches(id) = 3

====
